---------------------------- MODULE Spec2Model ----------------------------
(***************************************************************************)
(* Haku: GitHub issues kept as Markdown files.                             *)
(*                                                                         *)
(* The model covers the haku.py command line (init, link, token, delete,   *)
(* push, pull), the library core (core.py, utils.py, models.py) and the    *)
(* remote issue tracker the commands talk to.                              *)
(*                                                                         *)
(* Text.  A string is a sequence of tokens.  A token is a TLA+ string: a   *)
(* one-character token is that character; the fixed markers the code      *)
(* writes and looks for ("**State**: ", "State: ", ...) are single tokens. *)
(* A text with newlines is the sequence of its lines, that is the value of *)
(* Python's text.split('\n'): "a\n" is <<a, <<>>>>.                         *)
(***************************************************************************)
EXTENDS Integers, Sequences, FiniteSets, TLC

(***************************************************************************)
(* Bounds of the model.                                                    *)
(***************************************************************************)
MaxRemote == 2
MaxFiles == 3
MaxClock == 1
MaxNumber == 3
MaxBody == 5
PageSize == 1
MaxTitleLen == 3

(***************************************************************************)
(* Characters.                                                             *)
(***************************************************************************)
Digits == <<"0", "1", "2", "3", "4", "5", "6", "7", "8", "9">>

DigitSet == {Digits[i] : i \in 1..10}

\* "U+0130" is the capital I with a dot above, one character of a title
Letters == {"A", "C", "a", "b", "c", "d", "i", "m", "U+0130"}

isalnum(c) == c \in Letters \cup DigitSet

isspace(c) == c = " "

lower(c) == IF c = "A" THEN "a" ELSE IF c = "C" THEN "c" ELSE c

RECURSIVE str_lower(_)
\* str.lower() of a string: the lower case of U+0130 is two characters, an i
\* and the combining dot above (U+0307), which is not alphanumeric
str_lower(s) ==
    IF s = <<>> THEN <<>>
    ELSE (IF Head(s) = "U+0130" THEN <<"i", "U+0307">> ELSE <<lower(Head(s))>>)
            \o str_lower(Tail(s))

DigitVal(c) == CHOOSE i \in 0..9 : Digits[i + 1] = c

(***************************************************************************)
(* str(n) and int(s).  int(s) raises ValueError unless IsInt(s): s is an   *)
(* optional "-" and a non-empty run of digits.                             *)
(***************************************************************************)
RECURSIVE NatToStr(_)
NatToStr(n) == IF n < 10 THEN <<Digits[n + 1]>>
               ELSE NatToStr(n \div 10) \o <<Digits[(n % 10) + 1]>>

IntToStr(n) == IF n < 0 THEN <<"-">> \o NatToStr(0 - n) ELSE NatToStr(n)

RECURSIVE DigitsToNat(_, _)
DigitsToNat(s, acc) == IF s = <<>> THEN acc
                       ELSE DigitsToNat(Tail(s), acc * 10 + DigitVal(Head(s)))

IsInt(s) ==
    LET ds == IF s # <<>> /\ Head(s) = "-" THEN Tail(s) ELSE s
    IN ds # <<>> /\ \A i \in 1..Len(ds) : ds[i] \in DigitSet

StrToInt(s) ==
    IF Head(s) = "-" THEN 0 - DigitsToNat(Tail(s), 0) ELSE DigitsToNat(s, 0)

(***************************************************************************)
(* Sequence helpers: s.split(sep), sep.join(parts), s.endswith, s.strip.   *)
(***************************************************************************)
RECURSIVE SplitAcc(_, _, _)
SplitAcc(s, sep, cur) ==
    IF s = <<>> THEN <<cur>>
    ELSE IF Head(s) = sep THEN <<cur>> \o SplitAcc(Tail(s), sep, <<>>)
    ELSE SplitAcc(Tail(s), sep, Append(cur, Head(s)))

Split(s, sep) == SplitAcc(s, sep, <<>>)

RECURSIVE Join(_, _)
Join(parts, sep) ==
    IF parts = <<>> THEN <<>>
    ELSE IF Len(parts) = 1 THEN parts[1]
    ELSE parts[1] \o <<sep>> \o Join(Tail(parts), sep)

EndsWith(s, suf) ==
    /\ Len(s) >= Len(suf)
    /\ SubSeq(s, Len(s) - Len(suf) + 1, Len(s)) = suf

StartsWith(s, pre) ==
    /\ Len(s) >= Len(pre)
    /\ SubSeq(s, 1, Len(pre)) = pre

RECURSIVE LStrip(_, _)
LStrip(s, cs) == IF s # <<>> /\ Head(s) \in cs THEN LStrip(Tail(s), cs) ELSE s

RECURSIVE RStrip(_, _)
RStrip(s, cs) == IF s # <<>> /\ s[Len(s)] \in cs
                 THEN RStrip(SubSeq(s, 1, Len(s) - 1), cs) ELSE s

Strip(s, cs) == RStrip(LStrip(s, cs), cs)


DotMd == <<".", "m", "d">>

Range(s) == {s[i] : i \in 1..Len(s)}

SetMax(S) == CHOOSE x \in S : \A y \in S : y <= x

(***************************************************************************)
(* Texts: sequences of lines.  TextCat is string concatenation seen        *)
(* through split('\n').                                                    *)
(***************************************************************************)
TextCat(a, b) ==
    SubSeq(a, 1, Len(a) - 1) \o <<a[Len(a)] \o b[1]>> \o Tail(b)

OneLine(s) == <<s>>

\* "\n" and "\n\n"
NL == <<<<>>, <<>>>>

NL2 == <<<<>>, <<>>, <<>>>>

RECURSIVE CatAll(_)
CatAll(ts) == IF Len(ts) = 1 THEN ts[1] ELSE TextCat(ts[1], CatAll(Tail(ts)))

IsBlank(line) == \A i \in 1..Len(line) : isspace(line[i])

(***************************************************************************)
(* haku.py: file names.                                                    *)
(***************************************************************************)
\* safe_title of get_issue_filename
SafeTitle(title) ==
    LET keep(c) == IF isalnum(c) \/ c \in {" ", "-", "_"} THEN c ELSE "_"
        under(c) == IF c = " " THEN "_" ELSE c
    IN str_lower([i \in 1..Len(title) |-> under(keep(title[i]))])

get_issue_filename(issue_number, title) ==
    IntToStr(issue_number) \o <<".">> \o SafeTitle(title) \o DotMd

\* parse_issue_filename returns (None, None) unless ParsesAsIssue(filename).
ParsesAsIssue(filename) ==
    LET parts == Split(filename, ".")
    IN Len(parts) >= 3 /\ IsInt(parts[1])

parse_issue_filename(filename) ==
    LET parts == Split(filename, ".")
    IN [number |-> StrToInt(parts[1]),
        title  |-> Join(SubSeq(parts, 2, Len(parts) - 1), ".")]

validate_markdown_file(content) == \E i \in 1..Len(content) : ~IsBlank(content[i])

(***************************************************************************)
(* utils.py: sanitize_filename and get_next_issue_number.                  *)
(***************************************************************************)
RECURSIVE Squeeze(_, _)
\* re.sub of a run of c (of at least minrun characters) by one c
Squeeze(s, c) ==
    IF Len(s) < 2 THEN s
    ELSE IF s[1] = c /\ s[2] = c THEN Squeeze(Tail(s), c)
    ELSE <<s[1]>> \o Squeeze(Tail(s), c)

sanitize_filename(title) ==
    LET special(c) == IF isalnum(c) \/ c = "_" \/ isspace(c) \/ c = "-" THEN c ELSE "_"
        dash(c)    == IF isspace(c) THEN "-" ELSE c
        s1 == [i \in 1..Len(title) |-> special(title[i])]
        \* \s+ -> '-': squeeze the runs of spaces, then turn each space into '-'
        sq == Squeeze(s1, " ")
        s2 == [i \in 1..Len(sq) |-> dash(sq[i])]
        s3 == Squeeze(s2, "_")
    IN Strip(s3, {"-", "_"})

\* The loop of get_next_issue_number over os.listdir, in the order `names`.
RECURSIVE NextNumberLoop(_, _)
NextNumberLoop(names, max_num) ==
    IF names = <<>> THEN max_num
    ELSE LET filename == Head(names)
             parts == Split(filename, ".")
             counted == /\ EndsWith(filename, DotMd)
                        /\ Len(parts) >= 2
                        /\ IsInt(parts[1])
                        /\ StrToInt(parts[1]) > max_num
         IN NextNumberLoop(Tail(names),
                           IF counted THEN StrToInt(parts[1]) ELSE max_num)

\* Some enumeration of a finite set (os.listdir gives an arbitrary order).
RECURSIVE SomeOrder(_)
SomeOrder(S) == IF S = {} THEN <<>>
                ELSE LET x == CHOOSE y \in S : TRUE
                     IN <<x>> \o SomeOrder(S \ {x})

\* An allocator that starts over at 1 every time.
get_next_issue_number_first(dir) == 1

\* An allocator that counts the files instead of reading their numbers.
get_next_issue_number_count(dir) == Cardinality(DOMAIN dir) + 1

get_next_issue_number(dir) == NextNumberLoop(SomeOrder(DOMAIN dir), 0) + 1

(***************************************************************************)
(* models.py: the Issue record and its Markdown codec.  An Issue is        *)
(* [number, title, body, state, labels, milestone, created_at]; body is a  *)
(* text, labels a sequence of strings, milestone a string or NoValue.      *)
(***************************************************************************)
NoValue == <<"None">>

Stamp(t) == <<"T">> \o IntToStr(t)

Issue(number, title, body, state, labels, milestone, created_at) ==
    [number |-> number, title |-> title, body |-> body, state |-> state,
     labels |-> labels, milestone |-> milestone, created_at |-> created_at]

\* Issue.to_markdown; `now` is datetime.now().isoformat()
to_markdown(self, now) ==
    LET created == IF self.created_at # <<>> /\ self.created_at # NoValue
                   THEN self.created_at ELSE now
        head == CatAll(<<
            <<<<"#", " ">> \o self.title>>, NL2,
            <<<<"**Created**", ": ">> \o created>>, NL,
            <<<<"**State**", ": ">> \o self.state>>, NL2,
            <<<<"## Description">>>>, NL2,
            self.body, NL>>)
        labels == IF self.labels # <<>>
                  THEN <<<<>>, <<"## Labels">>, Join(self.labels, ", "), <<>>>>
                  ELSE <<<<>>>>
        milestone == IF self.milestone # NoValue /\ self.milestone # <<>>
                     THEN <<<<>>, <<"## Milestone">>, self.milestone, <<>>>>
                     ELSE <<<<>>>>
    IN CatAll(<<head, labels, milestone>>)

\* The loop of from_markdown over the lines: acc is [state, created_at, body_lines].
RECURSIVE FromMarkdownLoop(_, _)
FromMarkdownLoop(lines, acc) ==
    IF lines = <<>> THEN acc
    ELSE LET line == Head(lines)
             field == Strip(Split(line, ": ")[2], {" "})
             next ==
                IF StartsWith(line, <<"**Created**", ": ">>)
                THEN [acc EXCEPT !.created_at = field]
                ELSE IF StartsWith(line, <<"**State**", ": ">>)
                THEN [acc EXCEPT !.state = field]
                ELSE IF StartsWith(line, <<"## Labels">>) THEN acc
                ELSE IF StartsWith(line, <<"## Milestone">>) THEN acc
                ELSE IF IsBlank(line) THEN acc
                ELSE [acc EXCEPT !.body_lines = Append(@, line)]
         IN FromMarkdownLoop(Tail(lines), next)

\* '\n'.join(body_lines).strip(); no body line is blank
StripText(body_lines) ==
    IF body_lines = <<>> THEN <<<<>>>>
    ELSE LET n == Len(body_lines)
             l == [body_lines EXCEPT ![1] = LStrip(@, {" "})]
         IN [l EXCEPT ![n] = RStrip(@, {" "})]

\* Issue.from_markdown returns None unless the name has three dot-separated
\* parts of which the first is an integer: FromMarkdownOk.
FromMarkdownOk(filename) ==
    LET parts == Split(filename, ".")
    IN Len(parts) >= 3 /\ IsInt(parts[1])

from_markdown(filename, content) ==
    LET parts == Split(filename, ".")
        acc == FromMarkdownLoop(content,
                   [state |-> <<"open">>, created_at |-> <<>>, body_lines |-> <<>>])
    IN Issue(StrToInt(parts[1]),
             Join(SubSeq(parts, 2, Len(parts) - 1), "."),
             StripText(acc.body_lines),
             acc.state, <<>>, NoValue, acc.created_at)

(***************************************************************************)
(* The state.                                                              *)
(*   cfg        haku.py's HakuConfig: .hakuconfig exists (initialized),    *)
(*              repo_url and token are set                                 *)
(*   issues_dir the directory ISSUES_DIR exists                            *)
(*   store      the files of ISSUES_DIR: file name -> content (a text)     *)
(*   backups    the snapshots of BACKUP_DIR: timestamp -> files            *)
(*   clock      the wall clock, in seconds                                 *)
(*   remote     the tracker's issues; issue number n is remote[n]          *)
(*   cmd        the command being run and where it stands                  *)
(*   queue      push's files_to_push still to be handled                   *)
(*   page       pull's page counter                                        *)
(*   issues     pull's accumulated issues                                  *)
(*   log        what the current command did, in order: the requests it    *)
(*              sent, the files it wrote, renamed or removed, the          *)
(*              snapshots it took, what it printed and what it raised      *)
(*   issue, decoded   an Issue object, and what decoding its file gave:    *)
(*              <<>> before the file is read, <<the Issue read>> after     *)
(*   created    history: for the files whose issue a push has created on   *)
(*              the tracker since the last local edit, the number the     *)
(*              tracker gave                                              *)
(*   pulls      history: how many `pull --all` have completed in a row     *)
(*              with no change to the files or the tracker in between      *)
(*              (counted up to 2)                                          *)
(***************************************************************************)
VARIABLES cfg, issues_dir, store, backups, clock, remote,
          cmd, queue, page, issues, log, issue, decoded, pulls, created

vars == <<cfg, issues_dir, store, backups, clock, remote,
          cmd, queue, page, issues, log, issue, decoded, pulls, created>>

disk == <<cfg, issues_dir, store, backups>>

run == <<queue, page, issues>>

codec == <<issue, decoded>>

\* no file holds an issue that a push created
NothingCreated == <<>>

\* A step that changes the files or the tracker ends a row of pulls; a step
\* that changes the files is a local edit.
Track ==
    /\ pulls' = IF store' = store /\ remote' = remote THEN pulls ELSE 0
    /\ created' = IF store' = store THEN created ELSE NothingCreated

\* A step of push: when it has created an issue on the tracker, the file
\* that holds the record after the step goes with the new issue's number.
TrackPush(filename) ==
    /\ pulls' = IF store' = store /\ remote' = remote THEN pulls ELSE 0
    /\ created' = IF Len(remote') = Len(remote) + 1
                  THEN [g \in ((DOMAIN created) \cap (DOMAIN store')) \cup {filename} |->
                           IF g = filename THEN Len(remote') ELSE created[g]]
                  ELSE created

(***************************************************************************)
(* The inputs.                                                             *)
(***************************************************************************)
Titles == {<<"A", " ", "b">>, <<"c">>}

Bodies == {<<<<"d">>>>}

LabelLists == {<<>>}

CoreLabelLists == {<<>>, <<<<"bug">>>>}

\* the optional ISSUE_NUMBER argument left out
NoNumber == 0 - 1

EmptyDir == [f \in {} |-> <<>>]

Idle == [name |-> "none", pc |-> "idle", all |-> FALSE, dry_run |-> FALSE]

\* No command is running: a command starts from here.
AtRest == cmd.pc = "idle"

\* The command has returned or raised.
Ended == cmd.pc \in {"done", "failed"}

Done(name, all, dry_run) ==
    [name |-> name, pc |-> "done", all |-> all, dry_run |-> dry_run]

Failed(name, all, dry_run) ==
    [name |-> name, pc |-> "failed", all |-> all, dry_run |-> dry_run]

\* The failures any request may meet: HTTP statuses handle_github_error
\* raises on, and requests.exceptions.RequestException.  A request for an
\* issue the tracker does not hold is answered 404.
Failures == {"401", "403_rate_limit", "422", "RequestException"}

\* a validate() that lets every configuration through
ConfigValidAlways == TRUE

\* config.validate() raises click.UsageError unless ConfigValid
ConfigValid == cfg.initialized /\ cfg.repo_url /\ cfg.token

Fresh ==
    /\ store = EmptyDir
    /\ backups = EmptyDir
    /\ clock = 0
    /\ remote = <<>>
    /\ cmd = Idle
    /\ queue = <<>>
    /\ page = 0
    /\ issues = <<>>
    /\ log = <<>>
    /\ issue = NoValue
    /\ decoded = <<>>
    /\ pulls = 0
    /\ created = NothingCreated

\* An empty directory.
SetupInit ==
    /\ cfg = [initialized |-> FALSE, repo_url |-> FALSE, token |-> FALSE]
    /\ issues_dir = FALSE
    /\ Fresh

\* A repository set up by init, link and token.
Init ==
    /\ cfg = [initialized |-> TRUE, repo_url |-> TRUE, token |-> TRUE]
    /\ issues_dir = TRUE
    /\ Fresh

(***************************************************************************)
(* The process of a command ends: what it held in memory is gone, what it  *)
(* wrote to disk and sent to the tracker stays.                            *)
(***************************************************************************)
Exit ==
    /\ Ended
    /\ cmd' = Idle
    /\ queue' = <<>>
    /\ page' = 0
    /\ issues' = <<>>
    /\ log' = <<>>
    /\ UNCHANGED <<disk, clock, remote, codec, pulls, created>>

(***************************************************************************)
(* haku.py: init, link, token.                                             *)
(***************************************************************************)
\* init: a second init asks for confirmation; both answers are modelled.
HakuInit ==
    /\ AtRest
    /\ \E confirmed \in BOOLEAN :
        IF cfg.initialized /\ ~confirmed
        THEN /\ cmd' = Failed("init", FALSE, FALSE)
             /\ log' = <<<<"raise", "Abort">>>>
             /\ UNCHANGED <<cfg, issues_dir>>
        ELSE /\ cmd' = Done("init", FALSE, FALSE)
             /\ issues_dir' = TRUE
             /\ cfg' = [cfg EXCEPT !.initialized = TRUE]
             /\ log' = <<<<"echo", "initialized">>>>
    /\ UNCHANGED <<store, backups, clock, remote, run, codec, pulls, created>>

\* link: one GET validates the repository, then the URL is saved.
HakuLink ==
    /\ AtRest
    /\ \E resp \in {"200"} \cup Failures :
        IF resp = "200"
        THEN /\ cfg' = [cfg EXCEPT !.repo_url = TRUE, !.initialized = TRUE]
             /\ cmd' = Done("link", FALSE, FALSE)
             /\ log' = <<<<"GET", "repo">>, <<"echo", "linked">>>>
        ELSE /\ cmd' = Failed("link", FALSE, FALSE)
             /\ log' = <<<<"GET", "repo">>, <<"raise", resp>>>>
             /\ UNCHANGED cfg
    /\ UNCHANGED <<issues_dir, store, backups, clock, remote, run, codec, pulls, created>>

HakuToken ==
    /\ AtRest
    /\ cfg' = [cfg EXCEPT !.token = TRUE, !.initialized = TRUE]
    /\ cmd' = Done("token", FALSE, FALSE)
    /\ log' = <<<<"echo", "token set">>>>
    /\ UNCHANGED <<issues_dir, store, backups, clock, remote, run, codec, pulls, created>>

(***************************************************************************)
(* The world around the commands: time passes, other people create and     *)
(* retitle issues on the tracker, and the user drops a hand-written file   *)
(* for a new issue (number 0) into ISSUES_DIR, which push creates          *)
(* remotely.  The world moves between two commands, not during one.        *)
(***************************************************************************)
Tick ==
    /\ AtRest
    /\ clock < MaxClock
    /\ clock' = clock + 1
    /\ UNCHANGED <<disk, remote, cmd, run, log, codec, pulls, created>>

RemoteIssue(title, body, labels) ==
    [title |-> title, body |-> body, state |-> <<"open">>, labels |-> labels,
     created_at |-> Stamp(0)]

RemoteCreate ==
    /\ AtRest
    /\ Len(remote) < MaxRemote
    /\ \E title \in Titles, body \in Bodies, labels \in LabelLists :
        remote' = Append(remote, RemoteIssue(title, body, labels))
    /\ UNCHANGED <<disk, clock, cmd, run, log, codec>>
    /\ Track

RemoteEdit ==
    /\ AtRest
    /\ \E n \in 1..Len(remote), title \in Titles :
        /\ remote[n].title # title
        /\ remote' = [remote EXCEPT ![n].title = title]
    /\ UNCHANGED <<disk, clock, cmd, run, log, codec>>
    /\ Track

\* The file of a new issue as the user writes it: "# title", a blank line,
\* the body.
PendingName(title) == <<"0", ".">> \o title \o DotMd

PendingContent(title, body) ==
    CatAll(<<OneLine(<<"#", " ">> \o title), NL2, body, NL>>)

UserWritePending ==
    /\ AtRest
    /\ issues_dir
    /\ \E title \in Titles, body \in Bodies :
        /\ PendingName(title) \notin DOMAIN store
        /\ Cardinality(DOMAIN store) < MaxFiles
        /\ store' = [f \in DOMAIN store \cup {PendingName(title)} |->
                        IF f = PendingName(title)
                        THEN PendingContent(title, body) ELSE store[f]]
    /\ UNCHANGED <<cfg, issues_dir, backups, clock, remote, cmd, run, log, codec>>
    /\ Track

(***************************************************************************)
(* File system helpers.                                                    *)
(***************************************************************************)
WriteFile(dir, name, content) ==
    [f \in DOMAIN dir \cup {name} |-> IF f = name THEN content ELSE dir[f]]

RemoveFile(dir, name) == [f \in DOMAIN dir \ {name} |-> dir[f]]

\* os.rename: the file leaves its old name and replaces what the new name held
\* A rename done as a copy: the old name stays.
RenameFileCopy(dir, old, new) ==
    [f \in DOMAIN dir \cup {new} |-> IF f = new THEN dir[old] ELSE dir[f]]

RenameFile(dir, old, new) ==
    [f \in (DOMAIN dir \ {old}) \cup {new} |-> IF f = new THEN dir[old] ELSE dir[f]]

(***************************************************************************)
(* core.py: HakuCore.create_issue and HakuCore.delete_issue.               *)
(***************************************************************************)
CoreCreateIssue ==
    /\ AtRest
    /\ \E title \in Titles, body \in Bodies, labels \in CoreLabelLists :
        IF ~issues_dir
        THEN /\ cmd' = Failed("core.create_issue", FALSE, FALSE)
             /\ log' = <<<<"raise", "not initialized">>>>
             /\ UNCHANGED store
        ELSE LET next_num == get_next_issue_number(store)
                 filename == IntToStr(next_num) \o <<".">>
                                 \o sanitize_filename(title) \o DotMd
                 new == Issue(next_num, title, body, <<"open">>, labels,
                              NoValue, Stamp(clock))
             IN /\ Cardinality(DOMAIN store) < MaxFiles
                /\ next_num <= MaxNumber
                /\ store' = WriteFile(store, filename, to_markdown(new, Stamp(clock)))
                /\ cmd' = Done("core.create_issue", FALSE, FALSE)
                /\ log' = <<<<"write", filename>>>>
    /\ UNCHANGED <<cfg, issues_dir, backups, clock, remote, run, codec>>
    /\ Track

\* find_issue_by_number: the files of the directory that match; the first
\* one in os.listdir's order is returned.
find_issue_by_number(dir, number) ==
    {f \in DOMAIN dir :
        /\ EndsWith(f, DotMd)
        /\ Len(Split(f, ".")) >= 3
        /\ IsInt(Split(f, ".")[1])
        /\ StrToInt(Split(f, ".")[1]) = number}

CoreDeleteIssue ==
    /\ AtRest
    /\ \E number \in 0..MaxNumber :
        IF ~issues_dir
        THEN /\ cmd' = Failed("core.delete_issue", FALSE, FALSE)
             /\ log' = <<<<"raise", "not initialized">>>>
             /\ UNCHANGED store
        ELSE IF find_issue_by_number(store, number) = {}
        THEN /\ cmd' = Done("core.delete_issue", FALSE, FALSE)
             /\ log' = <<<<"return", "not found", number>>>>
             /\ UNCHANGED store
        ELSE \E filepath \in find_issue_by_number(store, number) :
             /\ store' = RemoveFile(store, filepath)
             /\ cmd' = Done("core.delete_issue", FALSE, FALSE)
             /\ log' = <<<<"remove", filepath>>, <<"return", "deleted", number>>>>
    /\ UNCHANGED <<cfg, issues_dir, backups, clock, remote, run, codec>>
    /\ Track

(***************************************************************************)
(* haku.py: create_backup and delete.                                      *)
(***************************************************************************)
\* os.makedirs(backup_path) raises FileExistsError when a snapshot of the
\* same second exists: BackupFails.
\* os.makedirs(backup_path, exist_ok=True): never fails.
BackupNeverFails == FALSE

BackupFails == clock \in DOMAIN backups

\* A backup that makes its directory and copies no file into it.
create_backup_empty == WriteFile(backups, clock, EmptyDir)

create_backup == WriteFile(backups, clock, IF issues_dir THEN store ELSE EmptyDir)

\* The files of the directory whose name parses to the number.
FilesNumbered(dir, number) ==
    {f \in DOMAIN dir : ParsesAsIssue(f) /\ parse_issue_filename(f).number = number}

HakuDelete ==
    /\ AtRest
    /\ \E issue_number \in 0..MaxNumber, dry_run \in BOOLEAN :
        IF ~ConfigValid
        THEN /\ cmd' = Failed("delete", FALSE, dry_run)
             /\ log' = <<<<"raise", "UsageError">>>>
             /\ UNCHANGED <<store, backups>>
        ELSE IF ~issues_dir
        THEN /\ cmd' = Failed("delete", FALSE, dry_run)
             /\ log' = <<<<"raise", "FileNotFoundError">>>>
             /\ UNCHANGED <<store, backups>>
        ELSE IF FilesNumbered(store, issue_number) = {}
        THEN /\ cmd' = Failed("delete", FALSE, dry_run)
             /\ log' = <<<<"raise", "No local issue found", issue_number>>>>
             /\ UNCHANGED <<store, backups>>
        ELSE \E filepath \in FilesNumbered(store, issue_number) :
             IF dry_run
             THEN /\ cmd' = Done("delete", FALSE, dry_run)
                  /\ log' = <<<<"echo", "would delete", filepath>>>>
                  /\ UNCHANGED <<store, backups>>
             ELSE IF BackupFails
             THEN /\ cmd' = Failed("delete", FALSE, dry_run)
                  /\ log' = <<<<"raise", "FileExistsError">>>>
                  /\ UNCHANGED <<store, backups>>
             ELSE /\ backups' = create_backup
                  /\ store' = RemoveFile(store, filepath)
                  /\ cmd' = Done("delete", FALSE, dry_run)
                  /\ log' = <<<<"backup", clock>>, <<"remove", filepath>>,
                              <<"echo", "deleted", issue_number>>>>
    /\ UNCHANGED <<cfg, issues_dir, clock, remote, run, codec>>
    /\ Track

(***************************************************************************)
(* haku.py: push.                                                          *)
(***************************************************************************)
\* The orders in which os.listdir may give the names of S.
Orders(S) ==
    {o \in [1..Cardinality(S) -> S] : \A i, j \in 1..Cardinality(S) : o[i] = o[j] => i = j}

\* The loop that collects files_to_push, over the listing `names`.
RECURSIVE CollectFiles(_, _, _)
CollectFiles(names, issue_number, all) ==
    IF names = <<>> THEN <<>>
    ELSE LET filename == Head(names)
             rest == CollectFiles(Tail(names), issue_number, all)
         IN IF ~ParsesAsIssue(filename) THEN rest
            ELSE IF (all \/ parse_issue_filename(filename).number = issue_number)
                    /\ validate_markdown_file(store[filename])
            THEN <<[number |-> parse_issue_filename(filename).number,
                    title |-> parse_issue_filename(filename).title,
                    filepath |-> filename]>> \o rest
            ELSE rest

\* body = '\n'.join(lines[2:])
PushBody(content) ==
    IF Len(content) <= 2 THEN <<<<>>>> ELSE SubSeq(content, 3, Len(content))

PushStart ==
    /\ AtRest
    /\ \E issue_number \in {NoNumber} \cup 0..MaxNumber, all \in BOOLEAN, dry_run \in BOOLEAN :
        \* --all with an ISSUE_NUMBER behaves as --all alone
        /\ issue_number # NoNumber => ~all
        /\ IF ~ConfigValid
           THEN /\ cmd' = Failed("push", all, dry_run)
                /\ log' = <<<<"raise", "UsageError">>>>
                /\ queue' = <<>>
           \* `not issue_number` holds for ISSUE_NUMBER 0 too
           ELSE IF (issue_number = NoNumber \/ issue_number = 0) /\ ~all
           THEN /\ cmd' = Failed("push", all, dry_run)
                /\ log' = <<<<"raise", "UsageError">>>>
                /\ queue' = <<>>
           ELSE IF ~issues_dir
           THEN /\ cmd' = Failed("push", all, dry_run)
                /\ log' = <<<<"raise", "FileNotFoundError">>>>
                /\ queue' = <<>>
           ELSE \E names \in Orders(DOMAIN store) :
                LET files_to_push == CollectFiles(names, issue_number, all)
                IN /\ ~dry_run => \A i \in 1..Len(files_to_push) :
                        Len(PushBody(store[files_to_push[i].filepath])) <= MaxBody
                   /\ IF files_to_push = <<>>
                      THEN /\ cmd' = Failed("push", all, dry_run)
                           /\ log' = <<<<"raise", "No valid issues found to push">>>>
                           /\ queue' = <<>>
                      ELSE /\ cmd' = [name |-> "push", pc |-> "loop",
                                      all |-> all, dry_run |-> dry_run]
                           /\ log' = <<>>
                           /\ queue' = files_to_push
    /\ UNCHANGED <<disk, clock, remote, page, issues, codec, pulls, created>>

\* The tracker's answer to PATCH /issues/number: 404 for an unknown number.
PatchResponses(number) ==
    (IF number \in 1..Len(remote) THEN {"200"} ELSE {"404"}) \cup Failures

PostResponses == (IF Len(remote) < MaxRemote THEN {"201"} ELSE {}) \cup Failures

\* What the loop does after the iteration on Head(queue).
PushAdvance ==
    /\ queue' = Tail(queue)
    /\ cmd' = [cmd EXCEPT !.pc = IF Tail(queue) = <<>> THEN "done" ELSE "loop"]

\* A push that reports the failure and goes on with the next file.
PushAbortContinue(entries) ==
    /\ log' = log \o entries
    /\ PushAdvance
    /\ UNCHANGED <<store, remote>>

PushAbort(entries) ==
    /\ cmd' = [cmd EXCEPT !.pc = "failed"]
    /\ log' = log \o entries
    /\ UNCHANGED <<queue, store, remote>>

\* A loop without the `if dry_run:` branch.
PushDryRunIgnored == FALSE

\* `if dry_run:` in the loop: print, send nothing, go on
PushDryRun == cmd.dry_run

\* A push that drops the file whose creation failed.
FailedCreateRemoved(dir, filepath) == RemoveFile(dir, filepath)

\* A create that failed raises before os.rename: the file stays as it is.
FailedCreate(dir, filepath) == dir

\* One iteration of `for number, title, filepath in files_to_push`.
PushStep ==
    /\ cmd.name = "push" /\ cmd.pc = "loop"
    /\ LET number == Head(queue).number
           title == Head(queue).title
           filepath == Head(queue).filepath
       IN IF filepath \notin DOMAIN store
          THEN PushAbort(<<<<"raise", "FileNotFoundError">>>>)
          ELSE LET body == PushBody(store[filepath])
          IN IF PushDryRun
          THEN /\ log' = Append(log, <<"echo", "would push", number>>)
               /\ PushAdvance
               /\ UNCHANGED <<store, remote>>
          ELSE IF number > 0
          THEN \E resp \in PatchResponses(number) :
               IF resp = "200"
               THEN /\ remote' = [remote EXCEPT ![number].title = title,
                                                ![number].body = body]
                    /\ log' = log \o <<<<"PATCH", number>>, <<"echo", "updated", number>>>>
                    /\ PushAdvance
                    /\ UNCHANGED store
               ELSE PushAbort(<<<<"PATCH", number>>, <<"raise", resp>>>>)
          ELSE \E resp \in PostResponses :
               IF resp = "201"
               THEN LET assigned == Len(remote) + 1
                        new_filename == get_issue_filename(assigned, title)
                    IN /\ remote' = Append(remote, RemoteIssue(title, body, <<>>))
                       /\ store' = RenameFile(store, filepath, new_filename)
                       /\ log' = log \o <<<<"POST">>,
                                          <<"rename", filepath, new_filename>>,
                                          <<"echo", "created", assigned>>>>
                       /\ PushAdvance
               ELSE /\ cmd' = [cmd EXCEPT !.pc = "failed"]
                    /\ log' = log \o <<<<"POST">>, <<"raise", resp>>>>
                    /\ store' = FailedCreate(store, filepath)
                    /\ UNCHANGED <<queue, remote>>
    /\ UNCHANGED <<cfg, issues_dir, backups, clock, page, issues, codec>>
    /\ TrackPush(get_issue_filename(Len(remote'), Head(queue).title))

(***************************************************************************)
(* haku.py: pull and save_issue_locally.                                   *)
(***************************************************************************)
\* The content save_issue_locally writes for a tracker issue.
IssueFileContent(i) ==
    CatAll(<<
        OneLine(<<"#", " ">> \o i.title), NL2,
        i.body, NL2,
        IF i.labels # <<>>
            THEN <<<<"Labels: ">> \o Join(i.labels, ", "), <<>>>> ELSE <<<<>>>>,
        OneLine(<<"State: ">> \o i.state), NL,
        OneLine(<<"Created at: ">> \o i.created_at), NL>>)

\* A save that opens the file for appending.
save_issue_locally_append(dir, i) ==
    LET filename == get_issue_filename(i.number, i.title)
    IN WriteFile(dir, filename,
                 IF filename \in DOMAIN dir
                 THEN TextCat(dir[filename], IssueFileContent(i))
                 ELSE IssueFileContent(i))

save_issue_locally(dir, i) ==
    WriteFile(dir, get_issue_filename(i.number, i.title), IssueFileContent(i))

\* `for issue in issues: save_issue_locally(issue)`
RECURSIVE SaveAll(_, _)
SaveAll(dir, list) ==
    IF list = <<>> THEN dir
    ELSE SaveAll(save_issue_locally(dir, Head(list)), Tail(list))

WriteLog(list) == [k \in 1..Len(list) |->
                      <<"write", get_issue_filename(list[k].number, list[k].title)>>]

\* The tracker's JSON for issue n, and page p of the listing (state=all).
RemoteJson(n) == [number |-> n, title |-> remote[n].title, body |-> remote[n].body,
                  state |-> remote[n].state, labels |-> remote[n].labels,
                  created_at |-> remote[n].created_at]

RemotePage(p) ==
    LET first == (p - 1) * PageSize + 1
        last  == IF p * PageSize < Len(remote) THEN p * PageSize ELSE Len(remote)
    IN [k \in 1..(IF last >= first THEN last - first + 1 ELSE 0) |-> RemoteJson(first + k - 1)]

\* The tracker's answer to GET /issues: the first page of the issues in the
\* asked state (open when no state is asked).
RECURSIVE RemoteMatching(_, _)
RemoteMatching(n, state) ==
    IF n > Len(remote) THEN <<>>
    ELSE (IF state = <<"all">> \/ remote[n].state = state
          THEN <<RemoteJson(n)>> ELSE <<>>) \o RemoteMatching(n + 1, state)

FirstPage(list) == SubSeq(list, 1, IF Len(list) < PageSize THEN Len(list) ELSE PageSize)

PullStart ==
    /\ AtRest
    /\ \E issue_number \in {NoNumber} \cup 0..MaxNumber, all \in BOOLEAN, dry_run \in BOOLEAN :
        \* --all with an ISSUE_NUMBER behaves as --all alone
        /\ issue_number # NoNumber => ~all
        /\ IF ~ConfigValid
           THEN /\ cmd' = Failed("pull", all, dry_run)
                /\ log' = <<<<"raise", "UsageError">>>>
                /\ UNCHANGED <<store, page>>
           ELSE IF (issue_number = NoNumber \/ issue_number = 0) /\ ~all
           THEN /\ cmd' = Failed("pull", all, dry_run)
                /\ log' = <<<<"raise", "UsageError">>>>
                /\ UNCHANGED <<store, page>>
           ELSE IF all
           THEN /\ cmd' = [name |-> "pull", pc |-> "fetch", all |-> all, dry_run |-> dry_run]
                /\ log' = <<>>
                /\ page' = 1
                /\ UNCHANGED store
           \* a single issue: one GET, then the file is written
           ELSE \E resp \in (IF issue_number \in 1..Len(remote) THEN {"200"} ELSE {"404"})
                                \cup Failures :
                /\ UNCHANGED page
                /\ IF resp # "200"
                   THEN /\ cmd' = Failed("pull", all, dry_run)
                        /\ log' = <<<<"GET", issue_number>>, <<"raise", resp>>>>
                        /\ UNCHANGED store
                   ELSE IF dry_run
                   THEN /\ cmd' = Done("pull", all, dry_run)
                        /\ log' = <<<<"GET", issue_number>>,
                                    <<"echo", "would pull", issue_number>>>>
                        /\ UNCHANGED store
                   ELSE IF ~issues_dir
                   THEN /\ cmd' = Failed("pull", all, dry_run)
                        /\ log' = <<<<"GET", issue_number>>, <<"raise", "FileNotFoundError">>>>
                        /\ UNCHANGED store
                   ELSE /\ cmd' = Done("pull", all, dry_run)
                        /\ store' = save_issue_locally(store, RemoteJson(issue_number))
                        /\ log' = <<<<"GET", issue_number>>>>
                                    \o WriteLog(<<RemoteJson(issue_number)>>)
                                    \o <<<<"echo", "pulled", issue_number>>>>
    /\ issues' = <<>>
    /\ UNCHANGED <<cfg, issues_dir, backups, clock, remote, queue, codec>>
    /\ Track

\* A pull that writes each page as it arrives.
PageStoreWritten(dir, new_issues) == SaveAll(dir, new_issues)

\* What a page that is not empty does to the files: it is only accumulated
\* (issues.extend), nothing is written before the listing is complete.
PageStore(dir, new_issues) == dir

\* A loop that asks for the same page again.
NextPageSame(p) == p

\* page += 1
NextPage(p) == p + 1

\* One iteration of `while True`: the request for a page, and, when the page
\* comes back empty, what follows the loop.
PullPage ==
    /\ cmd.name = "pull" /\ cmd.pc = "fetch"
    /\ UNCHANGED <<cfg, issues_dir, backups, clock, remote, queue, codec>>
    /\ \E resp \in {"200"} \cup Failures :
        IF resp # "200"
        THEN /\ cmd' = [cmd EXCEPT !.pc = "failed"]
             /\ log' = log \o <<<<"GET", "page", page>>, <<"raise", resp>>>>
             /\ UNCHANGED <<store, page, issues>>
             /\ Track
        ELSE IF RemotePage(page) # <<>>
        THEN /\ issues' = issues \o RemotePage(page)
             /\ page' = NextPage(page)
             /\ log' = Append(log, <<"GET", "page", page>>)
             /\ store' = PageStore(store, RemotePage(page))
             /\ UNCHANGED cmd
             /\ Track
        ELSE IF cmd.dry_run
        THEN /\ cmd' = [cmd EXCEPT !.pc = "done"]
             /\ log' = log \o <<<<"GET", "page", page>>,
                                <<"echo", "would pull", Len(issues)>>>>
             /\ UNCHANGED <<store, page, issues>>
             /\ Track
        ELSE IF ~issues_dir /\ issues # <<>>
        THEN /\ cmd' = [cmd EXCEPT !.pc = "failed"]
             /\ log' = log \o <<<<"GET", "page", page>>, <<"raise", "FileNotFoundError">>>>
             /\ UNCHANGED <<store, page, issues>>
             /\ Track
        ELSE /\ cmd' = [cmd EXCEPT !.pc = "done"]
             /\ store' = SaveAll(store, issues)
             /\ log' = log \o <<<<"GET", "page", page>>>> \o WriteLog(issues)
                           \o <<<<"echo", "pulled", Len(issues)>>>>
             /\ UNCHANGED <<page, issues>>
             \* one more completed pull --all in the row
             /\ pulls' = IF pulls < 2 THEN pulls + 1 ELSE 2
             /\ created' = IF store' = store THEN created ELSE NothingCreated

(***************************************************************************)
(* The synchronisation commands and their world.                           *)
(***************************************************************************)
Next ==
    \/ RemoteCreate
    \/ RemoteEdit
    \/ UserWritePending
    \/ PushStart
    \/ PushStep
    \/ PullStart
    \/ PullPage
    \/ Exit

Spec == Init /\ [][Next]_vars

\* push alone, in a directory the user adds new issues to
PushNext ==
    \/ RemoteCreate
    \/ UserWritePending
    \/ PushStart
    \/ PushStep
    \/ Exit

PushSpec == Init /\ [][PushNext]_vars

\* pull alone, from a tracker other people work on
PullNext ==
    \/ RemoteCreate
    \/ RemoteEdit
    \/ UserWritePending
    \/ PullStart
    \/ PullPage
    \/ Exit

PullSpec == Init /\ [][PullNext]_vars

\* A pull that is in its loop goes on: the process is not stopped from
\* outside, and every request is answered or fails.
PullFairSpec == PullSpec /\ WF_vars(PullPage)

\* the requests of the command so far
GetRequests(l) == SelectSeq(l, LAMBDA e : e[1] = "GET")

RECURSIVE PagesUpTo(_)
\* the issues of the pages 1..n of the listing
PagesUpTo(n) == IF n = 0 THEN <<>> ELSE PagesUpTo(n - 1) \o RemotePage(n)

\* the library alone
LocalNext ==
    \/ UserWritePending
    \/ CoreCreateIssue
    \/ CoreDeleteIssue
    \/ Exit

LocalSpec == Init /\ [][LocalNext]_vars


(***************************************************************************)
(* The codec alone: an Issue object is written to its file as              *)
(* core.create_issue writes it, and the file is read back by               *)
(* Issue.from_markdown.                                                    *)
(***************************************************************************)
CodecTitles == Titles \cup {<<"c", ".", "d">>}

CodecBodies == {<<<<"d">>>>, <<<<"d">>, <<"m">>>>}

CodecIssues ==
    {Issue(n, t, b, st, ls, m, Stamp(0)) :
        n \in {1, 2, 12}, t \in CodecTitles, b \in CodecBodies,
        st \in {<<"open">>, <<"closed">>},
        ls \in {<<>>, <<<<"bug">>>>}, m \in {NoValue, <<"m">>}}

CodecInit ==
    /\ cfg = [initialized |-> TRUE, repo_url |-> TRUE, token |-> TRUE]
    /\ issues_dir = TRUE
    /\ store = EmptyDir
    /\ backups = EmptyDir
    /\ clock = 0
    /\ remote = <<>>
    /\ cmd = Idle
    /\ queue = <<>>
    /\ page = 0
    /\ issues = <<>>
    /\ log = <<>>
    /\ issue \in CodecIssues
    /\ decoded = <<>>
    /\ pulls = 0
    /\ created = NothingCreated

\* filename = f"{number}.{safe_title}.md"
IssueFileName(self) ==
    NatToStr(self.number) \o <<".">> \o sanitize_filename(self.title) \o DotMd

\* f.write(issue.to_markdown())
CodecWrite ==
    /\ store = EmptyDir
    /\ store' = WriteFile(store, IssueFileName(issue), to_markdown(issue, Stamp(clock)))
    /\ UNCHANGED <<cfg, issues_dir, backups, clock, remote, cmd, run, log, codec, pulls, created>>

\* Issue.from_markdown(filepath)
CodecRead ==
    /\ decoded = <<>>
    /\ \E filename \in DOMAIN store :
        /\ FromMarkdownOk(filename)
        /\ decoded' = <<from_markdown(filename, store[filename])>>
    /\ UNCHANGED <<disk, clock, remote, cmd, run, log, issue, pulls, created>>

CodecNext ==
    \/ CodecWrite
    \/ CodecRead

CodecSpec == CodecInit /\ [][CodecNext]_vars

\* the two local deletes, in a directory that the user fills
DeleteNext ==
    \/ UserWritePending
    \/ Tick
    \/ HakuDelete
    \/ CoreDeleteIssue
    \/ Exit

DeleteSpec == Init /\ [][DeleteNext]_vars

(***************************************************************************)
(* The slugs and the file names: sanitize_filename and the safe_title of   *)
(* get_issue_filename applied to a title and then to their own result, and *)
(* the names that get_issue_filename and HakuCore.create_issue build from   *)
(* the title for some numbers.  `issue` is the title, `decoded` the results *)
(* of the transform so far, `log` the names built.                         *)
(***************************************************************************)
TitleChars == {"A", "c", " ", "_", "-", ".", "U+0130"}

TitlesOfLen(n) == [1..n -> TitleChars]

SlugInit ==
    /\ cfg = [initialized |-> TRUE, repo_url |-> TRUE, token |-> TRUE]
    /\ issues_dir = TRUE
    /\ store = EmptyDir
    /\ backups = EmptyDir
    /\ clock = 0
    /\ remote = <<>>
    /\ cmd = Idle
    /\ queue = <<>>
    /\ page = 0
    /\ issues = <<>>
    /\ log = <<>>
    /\ \E n \in 0..MaxTitleLen : issue \in TitlesOfLen(n)
    /\ decoded = <<>>
    /\ pulls = 0
    /\ created = NothingCreated

\* the title, or the result of the transform applied last
SlugInput == IF decoded = <<>> THEN issue ELSE decoded[Len(decoded)]

SanitizeFilename ==
    /\ cmd.name \in {"none", "sanitize_filename"}
    /\ Len(decoded) < 2
    /\ decoded' = Append(decoded, sanitize_filename(SlugInput))
    /\ cmd' = [Idle EXCEPT !.name = "sanitize_filename"]
    /\ UNCHANGED <<disk, clock, remote, run, log, issue, pulls, created>>

SafeTitleOfFilename ==
    /\ cmd.name \in {"none", "get_issue_filename"}
    /\ Len(decoded) < 2
    /\ decoded' = Append(decoded, SafeTitle(SlugInput))
    /\ cmd' = [Idle EXCEPT !.name = "get_issue_filename"]
    /\ UNCHANGED <<disk, clock, remote, run, log, issue, pulls, created>>

\* the file name of the title under one more number, by one of the two builders
BuildFileName ==
    /\ Len(log) < 2
    /\ \E number \in 0..MaxNumber :
        \/ log' = Append(log, <<"get_issue_filename", number,
                                get_issue_filename(number, issue)>>)
        \/ log' = Append(log, <<"create_issue", number,
                                IssueFileName([number |-> number, title |-> issue])>>)
    /\ UNCHANGED <<disk, clock, remote, cmd, run, codec, pulls, created>>

SlugNext ==
    \/ SanitizeFilename
    \/ SafeTitleOfFilename
    \/ BuildFileName

SlugSpec == SlugInit /\ [][SlugNext]_vars

(***************************************************************************)
(* cli.py: the commands of the second entry point.  It reads the same      *)
(* .hakuconfig and the same directory "issues".                            *)
(***************************************************************************)
\* `not repo_url or not token` is false
CliLinked == cfg.repo_url /\ cfg.token

\* s.strip() of a text: the blank lines and the spaces at both ends go
RECURSIVE DropBlankHead(_)
DropBlankHead(lines) ==
    IF lines # <<>> /\ IsBlank(Head(lines)) THEN DropBlankHead(Tail(lines)) ELSE lines

RECURSIVE DropBlankTail(_)
DropBlankTail(lines) ==
    IF lines # <<>> /\ IsBlank(lines[Len(lines)])
    THEN DropBlankTail(SubSeq(lines, 1, Len(lines) - 1)) ELSE lines

TextStrip(lines) ==
    LET inner == DropBlankTail(DropBlankHead(lines))
    IN IF inner = <<>> THEN <<<<>>>>
       ELSE LET n == Len(inner)
                l == [inner EXCEPT ![1] = LStrip(@, {" "})]
            IN [l EXCEPT ![n] = RStrip(@, {" "})]

\* safe_title of cli.py create
CliSafeTitle(title) ==
    [i \in 1..Len(title) |->
        IF isalnum(title[i]) \/ title[i] \in {" ", "-", "_"} THEN title[i] ELSE "_"]

\* The content cli.py create writes.
CliCreateContent(title, body, label, now) ==
    CatAll(<<
        OneLine(<<"#", " ">> \o title), NL2,
        OneLine(<<"**Created**", ": ">> \o now), NL2,
        OneLine(<<"## Description">>), NL2,
        body, NL2,
        IF label # <<>>
            THEN <<<<>>, <<"## Labels">>, Join(label, ", "), <<>>>> ELSE <<<<>>>>>>)

\* cli.py create: next_num is 1 in a directory without .md file, else one
\* more than the largest int(f.split('.')[0]).
CliNextNum(dir) ==
    LET existing_issues == {f \in DOMAIN dir : EndsWith(f, DotMd)}
    IN IF existing_issues = {} THEN 1
       ELSE SetMax({StrToInt(Split(f, ".")[1]) : f \in existing_issues}) + 1

CliCreate ==
    /\ AtRest
    /\ \E title \in Titles, body \in Bodies, label \in LabelLists :
        IF ~issues_dir
        THEN /\ cmd' = Done("cli.create", FALSE, FALSE)
             /\ log' = <<<<"echo", "not initialized">>>>
             /\ UNCHANGED store
        ELSE IF \E f \in DOMAIN store :
                    EndsWith(f, DotMd) /\ ~IsInt(Split(f, ".")[1])
        THEN /\ cmd' = Failed("cli.create", FALSE, FALSE)
             /\ log' = <<<<"raise", "ValueError">>>>
             /\ UNCHANGED store
        ELSE LET next_num == CliNextNum(store)
                 filename == IntToStr(next_num) \o <<".">> \o CliSafeTitle(title) \o DotMd
             IN /\ Cardinality(DOMAIN store) < MaxFiles
                /\ next_num <= MaxNumber
                /\ store' = WriteFile(store, filename,
                                      CliCreateContent(title, body, label, Stamp(clock)))
                /\ cmd' = Done("cli.create", FALSE, FALSE)
                /\ log' = <<<<"write", filename>>, <<"echo", "created", next_num>>>>
    /\ UNCHANGED <<cfg, issues_dir, backups, clock, remote, run, codec>>
    /\ Track

\* What the tracker may answer to cli.py: cli.py tells 200/201 from any
\* other status, and does not catch the exceptions of requests.
CliFailures == {"401", "RequestException"}

\* cli.py push, up to the loop over os.listdir(issues_dir)
CliPushStart ==
    /\ AtRest
    /\ IF ~CliLinked
       THEN /\ cmd' = Done("cli.push", TRUE, FALSE)
            /\ log' = <<<<"echo", "not linked">>>>
            /\ queue' = <<>>
       ELSE IF ~issues_dir
       THEN /\ cmd' = Done("cli.push", TRUE, FALSE)
            /\ log' = <<<<"echo", "No issues directory found">>>>
            /\ queue' = <<>>
       ELSE \E names \in Orders({f \in DOMAIN store : EndsWith(f, DotMd)}) :
            /\ queue' = [k \in 1..Len(names) |-> [filepath |-> names[k]]]
            /\ log' = <<>>
            /\ cmd' = [name |-> "cli.push", pc |-> IF names = <<>> THEN "done" ELSE "loop",
                       all |-> TRUE, dry_run |-> FALSE]
    /\ UNCHANGED <<disk, clock, remote, page, issues, codec, pulls, created>>

\* One iteration of `for filename in os.listdir(issues_dir)` of cli.py push.
CliPushStep ==
    /\ cmd.name = "cli.push" /\ cmd.pc = "loop"
    /\ UNCHANGED <<disk, clock, page, issues, codec>>
    /\ LET filename == Head(queue).filepath
           issue_num == Split(filename, ".")[1]
           isdigit == issue_num # <<>> /\ \A i \in 1..Len(issue_num) : issue_num[i] \in DigitSet
           lines == store[filename]
           title == Strip(SubSeq(lines[1], 3, Len(lines[1])), {" "})
           body == TextStrip(SubSeq(lines, 4, Len(lines)))
           crash(entries) == /\ cmd' = [cmd EXCEPT !.pc = "failed"]
                             /\ log' = log \o entries
                             /\ UNCHANGED <<queue, remote>>
           go_on(entries) == /\ log' = log \o entries
                             /\ PushAdvance
       IN \E got \in IF isdigit
                     THEN (IF StrToInt(issue_num) \in 1..Len(remote)
                           THEN {"200"} ELSE {"404"}) \cup CliFailures
                     ELSE {"not asked"} :
          LET asked == IF isdigit THEN <<<<"GET", filename>>>> ELSE <<>>
          IN IF got = "RequestException"
             THEN crash(asked \o <<<<"raise", got>>>>)
             ELSE IF got = "200"
             \* exists: update
             THEN \E resp \in {"200"} \cup CliFailures :
                  IF resp = "RequestException"
                  THEN crash(asked \o <<<<"PATCH", filename>>, <<"raise", resp>>>>)
                  ELSE IF resp = "200"
                  THEN /\ remote' = [remote EXCEPT ![StrToInt(issue_num)].title = title,
                                                   ![StrToInt(issue_num)].body = body]
                       /\ go_on(asked \o <<<<"PATCH", filename>>,
                                           <<"echo", "updated", filename>>>>)
                  ELSE /\ UNCHANGED remote
                       /\ go_on(asked \o <<<<"PATCH", filename>>,
                                           <<"echo", "Failed to push issue", filename>>>>)
             \* any other answer: create
             ELSE \E resp \in PostResponses \cap ({"201"} \cup CliFailures) :
                  IF resp = "RequestException"
                  THEN crash(asked \o <<<<"POST", filename>>, <<"raise", resp>>>>)
                  ELSE IF resp = "201"
                  THEN /\ remote' = Append(remote, RemoteIssue(title, body, <<>>))
                       /\ go_on(asked \o <<<<"POST", filename>>,
                                           <<"echo", "created", filename>>>>)
                  ELSE /\ UNCHANGED remote
                       /\ go_on(asked \o <<<<"POST", filename>>,
                                           <<"echo", "Failed to push issue", filename>>>>)
    /\ TrackPush(Head(queue).filepath)

\* cli.py: issues are created locally and pushed, next to other people's
CliPushNext ==
    \/ RemoteCreate
    \/ CliCreate
    \/ CliPushStart
    \/ CliPushStep
    \/ Exit

CliPushSpec == Init /\ [][CliPushNext]_vars

\* cli.py pull names the file after f"{number}.{title}.md" with every
\* character that is not alphanumeric, ' ', '-' or '_' (the dots too) turned
\* into '_'.
CliPullName(i) == CliSafeTitle(IntToStr(i.number) \o <<".">> \o i.title \o DotMd)

CliPullContent(i) ==
    CatAll(<<
        OneLine(<<"#", " ">> \o i.title), NL2,
        OneLine(<<"**Created**", ": ">> \o i.created_at), NL,
        OneLine(<<"**State**", ": ">> \o (IF i.state = <<"open">> THEN <<"open">>
                                          ELSE <<"closed">>)), NL2,
        OneLine(<<"## Description">>), NL2,
        i.body, NL2,
        IF i.labels # <<>>
            THEN <<<<>>, <<"## Labels">>, Join(i.labels, ", "), <<>>>> ELSE <<<<>>>>>>)

RECURSIVE CliSaveAll(_, _)
CliSaveAll(dir, list) ==
    IF list = <<>> THEN dir
    ELSE CliSaveAll(WriteFile(dir, CliPullName(Head(list)), CliPullContent(Head(list))),
                    Tail(list))

\* cli.py pull: one GET of the listing (no parameter: the first page of the
\* open issues), then one file per issue of the answer.
CliPull ==
    /\ AtRest
    /\ IF ~CliLinked
       THEN /\ cmd' = Done("cli.pull", TRUE, FALSE)
            /\ log' = <<<<"echo", "not linked">>>>
            /\ UNCHANGED <<issues_dir, store>>
       ELSE \E resp \in {"200"} \cup CliFailures :
            \* os.makedirs(issues_dir) comes before the request
            /\ issues_dir' = TRUE
            /\ IF resp = "RequestException"
               THEN /\ cmd' = Failed("cli.pull", TRUE, FALSE)
                    /\ log' = (IF issues_dir THEN <<>> ELSE <<<<"makedirs">>>>)
                                 \o <<<<"GET", "issues">>, <<"raise", resp>>>>
                    /\ UNCHANGED store
               ELSE IF resp # "200"
               THEN /\ cmd' = Done("cli.pull", TRUE, FALSE)
                    /\ log' = (IF issues_dir THEN <<>> ELSE <<<<"makedirs">>>>)
                                 \o <<<<"GET", "issues">>,
                                      <<"echo", "Failed to fetch issues">>>>
                    /\ UNCHANGED store
               ELSE LET answer == FirstPage(RemoteMatching(1, <<"open">>))
                    IN /\ cmd' = Done("cli.pull", TRUE, FALSE)
                       /\ store' = CliSaveAll(store, answer)
                       /\ log' = (IF issues_dir THEN <<>> ELSE <<<<"makedirs">>>>)
                                    \o <<<<"GET", "issues">>>>
                                    \o [k \in 1..Len(answer) |->
                                           <<"write", CliPullName(answer[k])>>]
                                    \o <<<<"echo", "pulled", Len(answer)>>>>
    /\ UNCHANGED <<cfg, backups, clock, remote, run, codec>>
    /\ Track

(***************************************************************************)
(* github_api.py: GitHubAPI.  The constructor takes owner and repo from    *)
(* config.repo_url and fails on an empty URL; _handle_response raises on   *)
(* every status other than 200 and 201.                                    *)
(***************************************************************************)
ApiListIssues ==
    /\ AtRest
    /\ \E state \in {<<"all">>, <<"open">>, <<"closed">>} :
        IF ~cfg.repo_url
        THEN /\ cmd' = Failed("api.list_issues", FALSE, FALSE)
             /\ log' = <<<<"raise", "TypeError">>>>
        ELSE \E resp \in {"200"} \cup CliFailures :
             IF resp # "200"
             THEN /\ cmd' = Failed("api.list_issues", FALSE, FALSE)
                  /\ log' = <<<<"GET", "issues", state>>, <<"raise", resp>>>>
             ELSE /\ cmd' = Done("api.list_issues", FALSE, FALSE)
                  /\ log' = <<<<"GET", "issues", state>>,
                              <<"return", FirstPage(RemoteMatching(1, state))>>>>
    /\ UNCHANGED <<disk, clock, remote, run, codec, pulls, created>>

\* A tracker that forgets the issue.
DropRemote(r, number) ==
    [k \in 1..(Len(r) - 1) |-> IF k < number THEN r[k] ELSE r[k + 1]]

\* PATCH {"state": "closed"}
CloseRemote(r, number) == [r EXCEPT ![number].state = <<"closed">>]

ApiDeleteIssue ==
    /\ AtRest
    /\ \E number \in 1..MaxNumber :
        IF ~cfg.repo_url
        THEN /\ cmd' = Failed("api.delete_issue", FALSE, FALSE)
             /\ log' = <<<<"raise", "TypeError">>>>
             /\ UNCHANGED remote
        ELSE \E resp \in (IF number \in 1..Len(remote) THEN {"200"} ELSE {"404"})
                             \cup CliFailures :
             IF resp # "200"
             THEN /\ cmd' = Failed("api.delete_issue", FALSE, FALSE)
                  /\ log' = <<<<"PATCH", number>>, <<"raise", resp>>>>
                  /\ UNCHANGED remote
             ELSE /\ cmd' = Done("api.delete_issue", FALSE, FALSE)
                  /\ log' = <<<<"PATCH", number>>, <<"return", number>>>>
                  /\ remote' = CloseRemote(remote, number)
    /\ UNCHANGED <<disk, clock, run, codec>>
    /\ Track

\* the gateway and cli.py pull against a tracker other people work on
GatewayNext ==
    \/ RemoteCreate
    \/ ApiListIssues
    \/ ApiDeleteIssue
    \/ CliPull
    \/ Exit

GatewaySpec == Init /\ [][GatewayNext]_vars

\* delete and push: issues are created by push, deleted locally, and pushed
\* again
DeletePushNext ==
    \/ UserWritePending
    \/ HakuDelete
    \/ PushStart
    \/ PushStep
    \/ Exit

DeletePushSpec == Init /\ [][DeletePushNext]_vars

\* delete alone, over the seconds of the clock
BackupNext ==
    \/ UserWritePending
    \/ Tick
    \/ HakuDelete
    \/ Exit

BackupSpec == Init /\ [][BackupNext]_vars

\* what can happen to the issues of the tracker: they are created there,
\* pulled, deleted locally, pushed and closed through the gateway
TrackerNext ==
    \/ RemoteCreate
    \/ PullStart
    \/ PullPage
    \/ HakuDelete
    \/ CoreDeleteIssue
    \/ ApiDeleteIssue
    \/ PushStart
    \/ PushStep
    \/ Exit

TrackerSpec == Init /\ [][TrackerNext]_vars

\* A repository whose set-up is not complete: .hakuconfig is missing, or it
\* lacks the URL or the token.  Files are written by hand, other people
\* open issues on the tracker, and push and pull are tried by both command
\* lines.  The loops of push and pull start after the configuration test
\* only, and nothing here completes the set-up, so they are never entered.
UnlinkedInit ==
    /\ cfg \in {c \in [initialized : BOOLEAN, repo_url : BOOLEAN, token : BOOLEAN] :
                    /\ ~(c.repo_url /\ c.token)
                    \* save_config writes the file that makes initialized true
                    /\ (c.repo_url \/ c.token) => c.initialized}
    /\ issues_dir \in BOOLEAN
    /\ Fresh

UnlinkedNext ==
    \/ HakuInit
    \/ UserWritePending
    \/ RemoteCreate
    \/ PushStart
    \/ PullStart
    \/ CliPushStart
    \/ CliPull
    \/ Exit

UnlinkedSpec == UnlinkedInit /\ [][UnlinkedNext]_vars

(***************************************************************************)
(* Listing: utils.list_local_issues and haku.py list (without --query).    *)
(***************************************************************************)
\* ord(c) of the characters file names are made of
Ord(c) ==
    CASE c = " " -> 32
      [] c = "-" -> 45
      [] c = "." -> 46
      [] c \in DigitSet -> 48 + DigitVal(c)
      [] c = "A" -> 65
      [] c = "_" -> 95
      [] c = "a" -> 97
      [] c = "b" -> 98
      [] c = "c" -> 99
      [] c = "d" -> 100
      [] c = "m" -> 109

\* a < b for two strings
RECURSIVE StrLess(_, _)
StrLess(a, b) ==
    IF b = <<>> THEN FALSE
    ELSE IF a = <<>> THEN TRUE
    ELSE IF a[1] = b[1] THEN StrLess(Tail(a), Tail(b))
    ELSE Ord(a[1]) < Ord(b[1])

\* sorted(os.listdir(ISSUES_DIR))
RECURSIVE sorted(_)
sorted(S) ==
    IF S = {} THEN <<>>
    ELSE LET least == CHOOSE x \in S : \A y \in S \ {x} : StrLess(x, y)
         IN <<least>> \o sorted(S \ {least})

StateFilters == {NoValue, <<"open">>, <<"closed">>}

\* the query: none, one that is in the titles but for its case, one that is
\* in some bodies, one that is nowhere
Queries == {NoValue, <<"C">>, <<"open">>, <<"b">>}

\* sub in s, of two strings
Contains(s, sub) ==
    \E k \in 0..(Len(s) - Len(sub)) : SubSeq(s, k + 1, k + Len(sub)) = sub

\* sub in text, for a sub without newline: it is in one of the lines
ContainsInText(text, sub) == \E k \in DOMAIN text : Contains(text[k], sub)

\* A query that looks at the titles only.
QueryMatchesTitleOnly(found, query) == Contains(str_lower(found.title), str_lower(query))

\* query.lower() in issue.title.lower() or query.lower() in issue.body.lower()
QueryMatches(found, query) ==
    \/ Contains(str_lower(found.title), str_lower(query))
    \/ ContainsInText([k \in DOMAIN found.body |-> str_lower(found.body[k])],
                      str_lower(query))

\* utils.list_local_issues over os.listdir's order `names`
RECURSIVE list_local_issues(_, _, _, _)
list_local_issues(names, dir, state_filter, query) ==
    IF names = <<>> THEN <<>>
    ELSE LET filename == Head(names)
             rest == list_local_issues(Tail(names), dir, state_filter, query)
         IN IF ~EndsWith(filename, DotMd) THEN rest
            ELSE IF ~FromMarkdownOk(filename) THEN rest
            ELSE LET found == from_markdown(filename, dir[filename])
                 IN IF state_filter # NoValue /\ found.state # state_filter
                    THEN rest
                    ELSE IF query # NoValue /\ ~QueryMatches(found, query)
                    THEN rest
                    ELSE <<found>> \o rest

\* HakuCore.list_local_issues
CoreListLocalIssues ==
    /\ AtRest
    /\ \E state_filter \in StateFilters, query \in Queries, names \in Orders(DOMAIN store) :
        /\ cmd' = Done("core.list_local_issues", FALSE, FALSE)
        /\ log' = <<<<"return", IF issues_dir
                                THEN list_local_issues(names, store, state_filter, query)
                                ELSE <<>>,
                      state_filter, query>>>>
    /\ UNCHANGED <<disk, clock, remote, run, codec, pulls, created>>

\* list reads the state from the first line that starts with 'State:'
RECURSIVE HakuListState(_)
HakuListState(lines) ==
    IF lines = <<>> THEN <<"unknown">>
    ELSE IF Head(lines) # <<>> /\ Head(lines)[1] = "State: "
    THEN LET field == Strip(Tail(Head(lines)), {" "})
         IN str_lower(field)
    ELSE HakuListState(Tail(lines))

\* the loop of list over the sorted names: what it prints
RECURSIVE HakuListLocal(_, _, _, _)
HakuListLocal(names, dir, open, closed) ==
    IF names = <<>> THEN <<>>
    ELSE LET filename == Head(names)
             rest == HakuListLocal(Tail(names), dir, open, closed)
         IN IF ~ParsesAsIssue(filename) THEN rest
            ELSE LET number == parse_issue_filename(filename).number
                     title == parse_issue_filename(filename).title
                     state == HakuListState(dir[filename])
                 IN IF open /\ state # <<"open">> THEN rest
                    ELSE IF closed /\ state # <<"closed">> THEN rest
                    ELSE <<<<"echo", "local", number, title, state>>>> \o rest

HakuList ==
    /\ AtRest
    /\ \E remote_flag \in BOOLEAN, local_flag \in BOOLEAN,
          open \in BOOLEAN, closed \in BOOLEAN :
        LET local == local_flag \/ ~remote_flag
            state == IF open /\ ~closed THEN <<"open">>
                     ELSE IF closed /\ ~open THEN <<"closed">>
                     ELSE <<"open">>
            answer == FirstPage(RemoteMatching(1, state))
            remote_lines == [k \in 1..Len(answer) |->
                                <<"echo", "remote", answer[k].number,
                                  answer[k].title, answer[k].state>>]
            local_lines == IF ~issues_dir
                           THEN <<<<"echo", "No local issues directory found">>>>
                           ELSE HakuListLocal(sorted(DOMAIN store), store, open, closed)
        IN IF remote_flag /\ ~ConfigValid
           THEN /\ cmd' = Failed("list", FALSE, FALSE)
                /\ log' = <<<<"raise", "UsageError">>>>
           ELSE IF ~remote_flag
           THEN /\ cmd' = Done("list", FALSE, FALSE)
                /\ log' = local_lines
           ELSE \E resp \in {"200"} \cup Failures :
                IF resp # "200"
                THEN /\ cmd' = Failed("list", FALSE, FALSE)
                     /\ log' = <<<<"GET", "issues">>, <<"raise", resp>>>>
                ELSE /\ cmd' = Done("list", FALSE, FALSE)
                     /\ log' = <<<<"GET", "issues">>>> \o remote_lines
                                  \o (IF local THEN local_lines ELSE <<>>)
    /\ UNCHANGED <<disk, clock, remote, run, codec, pulls, created>>

\* Directories to list: issues 1, 2 and 10, each one absent, pulled from the
\* tracker (open or closed), written by the library, or a text without any
\* of the fields.
ListNames == {<<"1", ".", "c", ".", "m", "d">>,
              <<"2", ".", "c", ".", "m", "d">>,
              <<"1", "0", ".", "c", ".", "m", "d">>}

ListContents ==
    {IssueFileContent([number |-> 1, title |-> <<"c">>, body |-> <<<<"d">>>>,
                       state |-> st, labels |-> <<>>, created_at |-> Stamp(0)]) :
        st \in {<<"open">>, <<"closed">>}}
    \cup {to_markdown(Issue(1, <<"c">>, <<<<"d">>>>, st, <<>>, NoValue, Stamp(0)),
                      Stamp(0)) : st \in {<<"open">>, <<"closed">>}}
    \cup {<<<<"d">>>>}

ListDirs ==
    UNION {[names -> ListContents] : names \in SUBSET ListNames}

ListInit ==
    /\ cfg = [initialized |-> TRUE, repo_url |-> TRUE, token |-> TRUE]
    /\ issues_dir = TRUE
    /\ store \in ListDirs
    /\ backups = EmptyDir
    /\ clock = 0
    /\ remote \in {<<>>, <<RemoteIssue(<<"c">>, <<<<"d">>>>, <<>>)>>}
    /\ cmd = Idle
    /\ queue = <<>>
    /\ page = 0
    /\ issues = <<>>
    /\ log = <<>>
    /\ issue = NoValue
    /\ decoded = <<>>
    /\ pulls = 0
    /\ created = NothingCreated

ListNext ==
    \/ CoreListLocalIssues
    \/ HakuList
    \/ Exit

ListSpec == ListInit /\ [][ListNext]_vars

(***************************************************************************)
(* Properties of push.                                                     *)
(***************************************************************************)
\* C1: when push creates a pending issue (number 0) on the tracker and the
\* tracker gives it number n, the directory afterwards holds one file for
\* that issue, its name carries n and its content is the pending file's;
\* the pending file's name is gone and every other file is as it was.
C1_PushPromotesIdentity ==
    [][(cmd.name = "push" /\ cmd.pc = "loop" /\ Len(remote') = Len(remote) + 1)
        => LET old == Head(queue).filepath
               n == Len(remote')
           IN /\ Head(queue).number = 0
              /\ old \notin DOMAIN store'
              /\ \E g \in FilesNumbered(store', n) :
                    /\ store'[g] = store[old]
                    /\ \A f \in DOMAIN store' \ {g} :
                          /\ f \in DOMAIN store \ {old}
                          /\ store'[f] = store[f]]_vars

\* C1 happens: a push has renamed a pending file and another pending file
\* of the same batch was promoted before it.
C1_Promoted ==
    /\ cmd.name = "push"
    /\ \E i \in DOMAIN log : log[i][1] = "rename" /\ i > 3
    /\ \E n \in 1..MaxRemote : FilesNumbered(store, n) # {}

\* C2: when the tracker refuses one issue of a batch (422), push goes on
\* with the issues after it: a push never ends with issues of the batch
\* left untried behind the refused one.
C2_PushContinuesPastFailure ==
    (/\ cmd.name = "push"
     /\ cmd.pc = "failed"
     /\ log # <<>>
     /\ log[Len(log)] = <<"raise", "422">>)
        => Len(queue) <= 1

\* C5: a push or a pull that is not a dry run takes a snapshot before its
\* first change of the tracker (an issue created or updated) and before its
\* first write or rename in the directory.
C5_BackupBeforeMutation ==
    cmd.name \in {"push", "pull"}
        => \A i \in DOMAIN log :
              (\/ log[i][1] \in {"write", "rename"}
               \/ log[i][1] = "echo" /\ log[i][2] \in {"created", "updated"})
                 => \E j \in 1..(i - 1) : log[j][1] = "backup"

\* C6: a dry-run push, whatever its scope, sends no request and leaves the
\* files, the snapshots, the configuration and the tracker as they were.
C6_DryRunPushChangesNothing ==
    [][(cmd'.name = "push" /\ cmd'.dry_run)
        => /\ store' = store
           /\ issues_dir' = issues_dir
           /\ backups' = backups
           /\ cfg' = cfg
           /\ remote' = remote
           /\ \A i \in DOMAIN log' : log'[i][1] \notin {"GET", "POST", "PATCH"}]_vars

\* C6 happens: a dry-run push of a whole directory, holding a pending file
\* and a file pushed before, has gone through both.
C6_DryRunDone ==
    /\ cmd.name = "push" /\ cmd.dry_run /\ cmd.all /\ cmd.pc = "done"
    /\ \E i, j \in DOMAIN log :
          /\ log[i] = <<"echo", "would push", 0>>
          /\ log[j][1] = "echo" /\ log[j][3] > 0

(***************************************************************************)
(* Properties of pull.                                                     *)
(***************************************************************************)
\* C3: the directory never holds two files with the same positive number.
C3_OneFilePerIdentity ==
    \A f, g \in DOMAIN store :
        (/\ ParsesAsIssue(f) /\ ParsesAsIssue(g)
         /\ parse_issue_filename(f).number > 0
         /\ parse_issue_filename(f).number = parse_issue_filename(g).number)
            => f = g

\* C4: a pull run while the directory holds a pending file (number 0) sends
\* no request, takes no snapshot and writes no file.
C4_PullGuard ==
    (cmd.name = "pull" /\ FilesNumbered(store, 0) # {})
        => \A i \in DOMAIN log : log[i][1] \notin {"GET", "backup", "write"}

\* C7: a second pull --all, run when neither the files nor the tracker have
\* changed since the pull --all before it, leaves every file name and every
\* file content as the first pull left them.
C7_PullIdempotent ==
    [][(/\ pulls >= 1
        /\ cmd.name = "pull" /\ cmd.all /\ ~cmd.dry_run
        /\ cmd.pc = "fetch" /\ cmd'.pc = "done")
        => store' = store]_vars

\* C7 happens: two pulls in a row have written the files of two issues.
C7_PulledTwice ==
    /\ pulls = 2
    /\ cmd.name = "pull" /\ cmd.pc = "done"
    /\ Len(issues) = 2
    /\ \E i \in DOMAIN log : log[i][1] = "write"

\* C8: pull --all writes only once the whole listing is fetched: no step of
\* a pull that is still fetching pages, or that failed on a page, changes a
\* file, and such a pull has written nothing.
C8_PullAccumulateThenCommit ==
    [][(cmd'.name = "pull" /\ cmd'.all /\ cmd'.pc \in {"fetch", "failed"})
        => /\ store' = store
           /\ \A i \in DOMAIN log' : log'[i][1] # "write"]_vars

\* C8 happens: a pull failed on a later page, with issues of the earlier
\* pages already fetched and files already in the directory.
C8_FailedMidListing ==
    /\ cmd.name = "pull" /\ cmd.all /\ ~cmd.dry_run /\ cmd.pc = "failed"
    /\ page >= 2
    /\ issues # <<>>
    /\ store # EmptyDir

(***************************************************************************)
(* Properties of the codec and of the allocator.                           *)
(***************************************************************************)
\* C9: reading back the file written for an Issue gives an Issue with the
\* same number, title, body, state, labels and milestone.
C9_CodecRoundTrip ==
    decoded # <<>>
        => /\ decoded[1].number = issue.number
           /\ decoded[1].title = issue.title
           /\ decoded[1].body = issue.body
           /\ decoded[1].state = issue.state
           /\ decoded[1].labels = issue.labels
           /\ decoded[1].milestone = issue.milestone

\* C10: the next number is one more than the largest positive number among
\* the files, and 1 when no file has a positive number; files numbered 0
\* make no difference.
C10_NextIdentity ==
    LET ids == {parse_issue_filename(f).number :
                   f \in {g \in DOMAIN store : ParsesAsIssue(g)}} \ {0}
        others == DOMAIN store \ FilesNumbered(store, 0)
    IN /\ get_next_issue_number(store) = IF ids = {} THEN 1 ELSE SetMax(ids) + 1
       /\ get_next_issue_number([f \in others |-> store[f]])
              = get_next_issue_number(store)

\* C10 happens: the library has created an issue in a directory that holds
\* a pending file and whose numbers have a gap.
C10_AllocatedBesidePending ==
    /\ cmd.name = "core.create_issue" /\ cmd.pc = "done"
    /\ FilesNumbered(store, 0) # {}
    /\ FilesNumbered(store, 1) = {}
    /\ \E n \in 2..MaxNumber : FilesNumbered(store, n) # {}

(***************************************************************************)
(* Properties of the listings.                                             *)
(***************************************************************************)
\* C11: the local listings give the issues in increasing order of their
\* numbers: what haku.py list prints for the directory, and what
\* list_local_issues returns.
C11_ListingNumericOrder ==
    /\ (cmd.name = "list" /\ cmd.pc = "done")
          => \A i, j \in DOMAIN log :
                (i < j /\ log[i][2] = "local" /\ log[j][2] = "local")
                   => log[i][3] < log[j][3]
    /\ cmd.name = "core.list_local_issues"
          => \A i, j \in DOMAIN log[1][2] :
                i < j => log[1][2][i].number < log[1][2][j].number

\* C12: a file whose content has none of the fields of an issue file is
\* left out of what list_local_issues returns.
C12_MalformedFileSkipped ==
    cmd.name = "core.list_local_issues"
        => \A f \in DOMAIN store :
              (\A k \in DOMAIN store[f] :
                    \/ store[f][k] = <<>>
                    \/ store[f][k][1] \notin {"**Created**", "**State**",
                                              "State: ", "Created at: "})
                 => \A i \in DOMAIN log[1][2] :
                       log[1][2][i].number # parse_issue_filename(f).number

(***************************************************************************)
(* Properties of delete, of the snapshots and of the tracker's issues.     *)
(***************************************************************************)
\* C13: push closes on the tracker the issues that were deleted locally:
\* where every issue of the tracker was created by push, a completed
\* push --all leaves open no issue whose file `delete` has removed.
C13_PushClosesDeleted ==
    (cmd.name = "push" /\ cmd.pc = "done" /\ cmd.all /\ ~cmd.dry_run)
        => \A n \in 1..Len(remote) :
              FilesNumbered(store, n) = {} => remote[n].state = <<"closed">>

(***************************************************************************)
(* Properties of cli.py and of the gateway.                                *)
(***************************************************************************)
\* C14: push sends no create (POST) for a file whose number is positive,
\* also when the tracker does not know the number.
C14_NoCreateForPositive ==
    cmd.name = "cli.push"
        => \A i \in DOMAIN log :
              log[i][1] = "POST" => StrToInt(Split(log[i][2], ".")[1]) <= 0

\* C15: once the tracker answers a request of push with 401, or with 403
\* and no requests left (rate limit), the push has failed with that report
\* as the last thing it did: the request before it was sent once, the file
\* it was about and the files after it are still to be handled, and the
\* failed push sends nothing more and changes nothing on the tracker.
C15_FatalErrorsAbort ==
    /\ [](cmd.name = "push"
            => \A i \in DOMAIN log :
                  (log[i][1] = "raise" /\ log[i][2] \in {"401", "403_rate_limit"})
                     => /\ i = Len(log)
                        /\ cmd.pc = "failed"
                        /\ queue # <<>>
                        /\ log[i - 1][1] \in {"POST", "PATCH"}
                        /\ \A j \in 1..(i - 2) : log[j][1] # "raise")
    /\ [][(cmd.name = "push" /\ cmd.pc = "failed")
            => (remote' = remote /\ store' = store /\ log' = <<>>)]_vars

\* C15 happens: a push of several files failed on 401 or on the rate limit
\* after a first file went through, with files left behind.
C15_AbortedMidBatch ==
    /\ cmd.name = "push" /\ cmd.pc = "failed"
    /\ Len(log) > 2
    /\ log[Len(log)][2] \in {"401", "403_rate_limit"}
    /\ Len(queue) >= 2

\* C16: the listings of the gateway give every issue of the tracker that
\* matches: list_issues returns all the issues in the asked state, and
\* cli.py pull writes a file for every open issue.
C16_ListFollowsPagination ==
    /\ (cmd.name = "api.list_issues" /\ cmd.pc = "done")
          => Len(log[2][2]) = Len(RemoteMatching(1, log[1][3]))
    /\ (cmd.name = "cli.pull" /\ cmd.pc = "done" /\ log[Len(log)][2] = "pulled")
          => log[Len(log)][3] = Len(RemoteMatching(1, <<"open">>))

\* C17: a file has a positive number only once the tracker has given that
\* number to an issue: an issue created locally is numbered 0 until a push
\* has created it on the tracker.
C17_PositiveOnlyFromTracker ==
    \A f \in DOMAIN store :
        (EndsWith(f, DotMd) /\ IsInt(Split(f, ".")[1]))
            => StrToInt(Split(f, ".")[1]) \in 0..Len(remote)

\* C18: a snapshot, once taken, keeps its files: every step leaves the
\* snapshots there are as they were, a step that adds one adds exactly the
\* snapshot of the current second with the files of the directory, and a
\* delete refused because that second's snapshot exists changes nothing.
C18_SnapshotsNeverOverwritten ==
    [][/\ \A t \in DOMAIN backups :
             t \in DOMAIN backups' /\ backups'[t] = backups[t]
       /\ backups' # backups
             => /\ clock \notin DOMAIN backups
                /\ DOMAIN backups' = DOMAIN backups \cup {clock}
                /\ backups'[clock] = store
       /\ (cmd'.name = "delete" /\ cmd'.pc = "failed"
            /\ log' = <<<<"raise", "FileExistsError">>>>)
             => (backups' = backups /\ store' = store)]_vars

\* C18 happens: with two snapshots taken, a delete in the second of the
\* later one was refused, the file still there.
C18_SameSecondRefused ==
    /\ cmd.name = "delete" /\ cmd.pc = "failed"
    /\ log = <<<<"raise", "FileExistsError">>>>
    /\ Cardinality(DOMAIN backups) = 2
    /\ clock \in DOMAIN backups
    /\ store # EmptyDir

\* C19: the tracker never loses an issue: no step makes the issues of the
\* tracker fewer, a local delete (haku.py delete, HakuCore.delete_issue)
\* sends no request and leaves the tracker as it was, and the gateway's
\* delete_issue changes nothing but the state of one issue, to closed.
C19_RemoteNeverShrinks ==
    [][/\ Len(remote') >= Len(remote)
       /\ cmd'.name \in {"delete", "core.delete_issue"}
             => /\ remote' = remote
                /\ \A i \in DOMAIN log' : log'[i][1] \notin {"GET", "POST", "PATCH"}
       /\ (cmd'.name = "api.delete_issue" /\ remote' # remote)
             => \E n \in 1..Len(remote) :
                   remote' = [remote EXCEPT ![n].state = <<"closed">>]]_vars

\* C19 happens: an issue whose file was deleted locally has been closed
\* through the gateway, and the tracker still holds it.
C19_ClosedNotRemoved ==
    /\ cmd.name = "api.delete_issue" /\ cmd.pc = "done"
    /\ backups # EmptyDir
    /\ \E n \in 1..Len(remote) :
          remote[n].state = <<"closed">> /\ FilesNumbered(store, n) = {}

\* C20: without a linked repository or without a token, push and pull of
\* haku.py and of cli.py end at once with the error reported and nothing
\* else done: no request is sent, no file is written or renamed, no
\* directory is created, and the tracker is as it was.
C20_ConfigErrorsAbortEarly ==
    [][(/\ AtRest
        /\ cmd'.name \in {"push", "pull", "cli.push", "cli.pull"}
        /\ ~(cfg.repo_url /\ cfg.token))
          => /\ cmd'.pc \in {"done", "failed"}
             /\ log' \in {<<<<"raise", "UsageError">>>>, <<<<"echo", "not linked">>>>}
             /\ UNCHANGED <<cfg, issues_dir, store, backups, remote>>]_vars

\* C20 happens: a push in a linked repository without a token has raised
\* UsageError while a hand-written file waits and the tracker holds an issue.
C20_PushWithoutToken ==
    /\ cmd.name = "push" /\ cmd.pc = "failed"
    /\ log = <<<<"raise", "UsageError">>>>
    /\ cfg.repo_url /\ ~cfg.token
    /\ store # EmptyDir
    /\ Len(remote) >= 1

\* C21: every file a pull has written is named <identity>.<slug>.md: the
\* name ends in .md, splits at its dots into three parts or more, and its
\* first part is the number of an issue of the tracker.
C21_PulledNamesAreLocators ==
    \A f \in DOMAIN store :
        /\ EndsWith(f, DotMd)
        /\ Len(Split(f, ".")) >= 3
        /\ IsInt(Split(f, ".")[1])
        /\ StrToInt(Split(f, ".")[1]) \in 1..Len(remote)

\* C22: the slug of a slug is that slug, for sanitize_filename and for the
\* safe_title of get_issue_filename alike, and the file names one builder
\* makes from one title under two different numbers are different.
C22_SlugIdempotentNamesDistinct ==
    /\ Len(decoded) = 2 => decoded[2] = decoded[1]
    /\ \A i, j \in DOMAIN log :
          (log[i][1] = log[j][1] /\ log[i][2] # log[j][2]) => log[i][3] # log[j][3]

\* C23: pull --all asks for the pages one after the other: its requests are
\* those for the pages 1, 2, 3, ... in that order, one per step, every page
\* before the current one was not empty and its issues are held, the loop
\* ends with the first empty page, what is then written is one file for
\* each issue of the pages before it, and a pull in its loop always ends.
C23_PaginationSequential ==
    /\ [](cmd.name = "pull" /\ cmd.all
            => /\ \A k \in DOMAIN GetRequests(log) :
                    GetRequests(log)[k] = <<"GET", "page", k>>
               /\ Len(GetRequests(log)) \in {page - 1, page}
               /\ cmd.pc = "fetch" => Len(GetRequests(log)) = page - 1
               /\ \A k \in 1..(page - 1) : RemotePage(k) # <<>>
               /\ issues = PagesUpTo(page - 1)
               /\ cmd.pc = "done"
                    => /\ RemotePage(page) = <<>>
                       /\ Len(GetRequests(log)) = page)
    /\ [][(cmd.name = "pull" /\ cmd.all /\ cmd.pc = "fetch")
            => /\ Len(GetRequests(log')) = Len(GetRequests(log)) + 1
               /\ page' \in {page, page + 1}
               /\ (cmd'.pc = "done" /\ ~cmd.dry_run)
                    => /\ store' = SaveAll(store, PagesUpTo(page - 1))
                       /\ SelectSeq(log', LAMBDA e : e[1] = "write")
                            = WriteLog(PagesUpTo(page - 1))]_vars
    /\ ((cmd.name = "pull" /\ cmd.all /\ cmd.pc = "fetch") ~> Ended)

\* C23 happens: a pull --all has fetched two pages that were not empty and
\* a third, empty one, and has written the files of the issues of both.
C23_TwoPagesThenEmpty ==
    /\ cmd.name = "pull" /\ cmd.all /\ ~cmd.dry_run /\ cmd.pc = "done"
    /\ page = 3
    /\ Len(issues) = Len(remote)
    /\ Len(SelectSeq(log, LAMBDA e : e[1] = "write")) = Len(issues)

\* C24: a push whose POST for a pending file failed leaves the files and the
\* tracker as they were: the file is still there under its name numbered 0,
\* and a push --all run afterwards collects it again as a new issue.
C24_FailedCreateKeepsPending ==
    [][(/\ cmd.name = "push" /\ cmd.pc = "loop"
        /\ Len(log') >= 2
        /\ log'[Len(log')][1] = "raise"
        /\ log'[Len(log') - 1] = <<"POST">>)
          => LET filepath == Head(queue).filepath
             IN /\ cmd'.pc = "failed"
                /\ store' = store
                /\ remote' = remote
                /\ filepath \in DOMAIN store'
                /\ parse_issue_filename(filepath).number = 0
                /\ \A names \in Orders(DOMAIN store') :
                      \E i \in DOMAIN CollectFiles(names, NoNumber, TRUE) :
                         /\ CollectFiles(names, NoNumber, TRUE)[i].filepath = filepath
                         /\ CollectFiles(names, NoNumber, TRUE)[i].number = 0]_vars

\* C24 happens: a push failed on the POST for a pending file which is still
\* in the directory, after an earlier file of the same push went through.
C24_CreateFailedFileKept ==
    /\ cmd.name = "push" /\ cmd.pc = "failed"
    /\ Len(log) > 2
    /\ log[Len(log) - 1] = <<"POST">>
    /\ Head(queue).number = 0
    /\ Head(queue).filepath \in DOMAIN store

\* C25: a delete that removes a file has first taken a snapshot which holds
\* that file with the content it had, and removes that one file only; a
\* delete that ends well without --dry-run has removed a file; a delete
\* with --dry-run takes no snapshot and removes nothing.
C25_DeleteSnapshotsFirst ==
    [][(AtRest /\ cmd'.name = "delete")
          => /\ store' # store
                  => /\ ~cmd'.dry_run /\ cmd'.pc = "done"
                     /\ log'[1] = <<"backup", clock>>
                     /\ log'[2][1] = "remove"
                     /\ log'[2][2] \in DOMAIN store
                     /\ store' = RemoveFile(store, log'[2][2])
                     /\ clock \in DOMAIN backups' \ DOMAIN backups
                     /\ log'[2][2] \in DOMAIN backups'[clock]
                     /\ backups'[clock][log'[2][2]] = store[log'[2][2]]
             /\ (cmd'.pc = "done" /\ ~cmd'.dry_run) => store' # store
             /\ cmd'.dry_run => (store' = store /\ backups' = backups)]_vars

\* C25 happens: a delete has removed a file that one snapshot holds, and
\* other files are left in the directory.
C25_DeletedFileInSnapshot ==
    /\ cmd.name = "delete" /\ cmd.pc = "done" /\ ~cmd.dry_run
    /\ Len(log) >= 2 /\ log[2][1] = "remove"
    /\ log[2][2] \notin DOMAIN store
    /\ \E t \in DOMAIN backups : log[2][2] \in DOMAIN backups[t]
    /\ store # EmptyDir

\* C26: what list_local_issues returns is, without repetition, the Issue of
\* every .md file that decodes, whose state is the state filter if there is
\* one, and whose title or body holds the query, cases apart, if there is
\* one; without filter and query it is the Issue of every file that decodes.
C26_ListFilters ==
    (cmd.name = "core.list_local_issues" /\ issues_dir)
        => LET result == log[1][2]
               state_filter == log[1][3]
               query == log[1][4]
               decodable == {f \in DOMAIN store : EndsWith(f, DotMd) /\ FromMarkdownOk(f)}
               rec(f) == from_markdown(f, store[f])
               low(text) == [k \in DOMAIN text |-> str_lower(text[k])]
               wanted == {f \in decodable :
                            /\ state_filter # NoValue => rec(f).state = state_filter
                            /\ query # NoValue
                                  => \/ Contains(str_lower(rec(f).title), str_lower(query))
                                     \/ \E k \in DOMAIN rec(f).body :
                                           Contains(low(rec(f).body)[k], str_lower(query))}
           IN /\ {result[i] : i \in DOMAIN result} = {rec(f) : f \in wanted}
              /\ Len(result) = Cardinality(wanted)
              /\ (state_filter = NoValue /\ query = NoValue) => wanted = decodable

\* C26 happens: a listing with a state filter and a query, the query in the
\* title but for its case, has returned some of the files that decode and
\* left out another.
C26_FilteredByStateAndQuery ==
    /\ cmd.name = "core.list_local_issues" /\ cmd.pc = "done"
    /\ log[1][3] = <<"closed">> /\ log[1][4] = <<"C">>
    /\ Len(log[1][2]) >= 1
    /\ Len(log[1][2]) < Cardinality({f \in DOMAIN store : FromMarkdownOk(f)})

\* C27: a local delete (HakuCore.delete_issue, or haku.py delete without
\* --dry-run) either reports that no file holds the number, which is so,
\* and leaves the directory as it was, or removes one file that holds the
\* number and leaves every other file as it was.
C27_DeleteOkOrNotFound ==
    [][(/\ AtRest /\ issues_dir
        /\ \/ cmd'.name = "core.delete_issue"
           \/ cmd'.name = "delete" /\ ~cmd'.dry_run /\ ConfigValid)
          => LET last == log'[Len(log')]
                 not_found == \/ last[1] = "return" /\ last[2] = "not found"
                              \/ last[1] = "raise" /\ last[2] = "No local issue found"
                 held(n) == IF cmd'.name = "delete" THEN FilesNumbered(store, n)
                            ELSE find_issue_by_number(store, n)
             IN IF not_found
                THEN store' = store /\ held(last[3]) = {}
                ELSE /\ last[2] = "deleted"
                     /\ \E f \in held(last[3]) : store' = RemoveFile(store, f)]_vars

\* C28: a create_issue that ends well adds one file and leaves every file
\* there was with its name and its content; the number in the name of the
\* new file is greater than the number of every record file there was.
C28_CreateNeverOverwrites ==
    [][(AtRest /\ cmd'.name = "core.create_issue" /\ cmd'.pc = "done")
          => /\ \A f \in DOMAIN store : f \in DOMAIN store' /\ store'[f] = store[f]
             /\ Cardinality(DOMAIN store') = Cardinality(DOMAIN store) + 1
             /\ \E new \in DOMAIN store' \ DOMAIN store :
                   /\ log' = <<<<"write", new>>>>
                   /\ FromMarkdownOk(new)
                   /\ \A g \in DOMAIN store :
                         (EndsWith(g, DotMd) /\ FromMarkdownOk(g))
                            => StrToInt(Split(new, ".")[1]) > StrToInt(Split(g, ".")[1])]_vars

\* C28 happens: after a delete of issue 1, create_issue has made issue 3
\* beside the file of issue 2, and number 1 is not used again.
C28_CreatedAfterDelete ==
    /\ cmd.name = "core.create_issue" /\ cmd.pc = "done"
    /\ StrToInt(Split(log[1][2], ".")[1]) = 3
    /\ find_issue_by_number(store, 2) # {}
    /\ find_issue_by_number(store, 1) = {}

\* C29: a push over all the files that comes to a file whose issue an
\* earlier push has created, the files not having been edited since, creates
\* nothing: the tracker gets no new issue and no POST is sent, a PATCH that
\* is sent goes to the issue that was created for the file, and unless the
\* step fails such a PATCH is sent.
C29_PushRepeatable ==
    [][(/\ cmd.name \in {"push", "cli.push"} /\ cmd.pc = "loop"
        /\ cmd.all /\ ~cmd.dry_run
        /\ Head(queue).filepath \in DOMAIN created
        /\ Head(queue).filepath \in DOMAIN store)
          => LET filepath == Head(queue).filepath
                 sent == SubSeq(log', Len(log) + 1, Len(log'))
                 target(e) == IF cmd.name = "push" THEN e[2]
                              ELSE StrToInt(Split(e[2], ".")[1])
             IN /\ Len(remote') = Len(remote)
                /\ \A i \in DOMAIN sent :
                      /\ sent[i][1] # "POST"
                      /\ sent[i][1] = "PATCH" => target(sent[i]) = created[filepath]
                /\ cmd'.pc # "failed" => \E i \in DOMAIN sent : sent[i][1] = "PATCH"]_vars

\* C30: a push --all that follows a completed pull --all, with no change of
\* the files or of the tracker in between, leaves the title and the body of
\* every tracker issue as they were.
C30_SyncUneditedIsNoOp ==
    [][(/\ cmd.name = "push" /\ cmd.pc = "loop"
        /\ cmd.all /\ ~cmd.dry_run
        /\ pulls >= 1)
          => /\ Len(remote') = Len(remote)
             /\ \A n \in DOMAIN remote :
                   /\ remote'[n].title = remote[n].title
                   /\ remote'[n].body = remote[n].body]_vars

\* C31: while every issue of the tracker is as the tracker side made it (no
\* push has written to the tracker yet), a step of cli.py push over a file
\* that create wrote leaves every issue the tracker already holds as it was:
\* the step can only add an issue.
C31_FirstPushOnlyAdds ==
    [][(/\ cmd.name = "cli.push" /\ cmd.pc = "loop"
        /\ Head(queue).filepath \in DOMAIN store
        /\ \A n \in DOMAIN remote : remote[n].body \in Bodies)
          => /\ Len(remote') >= Len(remote)
             /\ \A n \in DOMAIN remote : remote'[n] = remote[n]]_vars

=============================================================================
